---- MODULE Spec2Model ----
(***************************************************************************)
(* Model of src/sports2d_ui.py: the Sports2DApp session state (playback,   *)
(* selection, calibration, kinematics cache), its event handlers, and the  *)
(* pure helpers they call (np.gradient, smooth, the overlay geometry).     *)
(*                                                                         *)
(* Numbers.  Python floats are modelled as exact rationals [n, d] with     *)
(* d > 0 and gcd(n, d) = 1; NaN is the record with d = 0 and absorbs every *)
(* arithmetic operation, and every comparison with it is false, as in      *)
(* IEEE-754.                                                               *)
(***************************************************************************)
EXTENDS Integers, Sequences, FiniteSets, TLC

\* ───────────────────────── rational arithmetic ─────────────────────────────

Abs(k) == IF k < 0 THEN -k ELSE k

RECURSIVE GCD(_, _)
GCD(a, b) == IF b = 0 THEN a ELSE GCD(b, a % b)

NaN == [n |-> 0, d |-> 0]

isnan(r) == r.d = 0

Norm(n, d) ==
    IF d = 0 THEN NaN
    ELSE LET s == IF d < 0 THEN -1 ELSE 1
             g == GCD(Abs(n), Abs(d))
         IN  [n |-> (s * n) \div g, d |-> (s * d) \div g]

R(k) == [n |-> k, d |-> 1]

RAdd(a, b) == IF isnan(a) \/ isnan(b) THEN NaN ELSE Norm(a.n * b.d + b.n * a.d, a.d * b.d)
RNeg(a)    == IF isnan(a) THEN NaN ELSE [n |-> -a.n, d |-> a.d]
RSub(a, b) == RAdd(a, RNeg(b))
RMul(a, b) == IF isnan(a) \/ isnan(b) THEN NaN ELSE Norm(a.n * b.n, a.d * b.d)
RDiv(a, b) == IF isnan(a) \/ isnan(b) \/ b.n = 0 THEN NaN ELSE Norm(a.n * b.d, a.d * b.n)

\* comparisons: false whenever an operand is NaN
RLt(a, b) == ~isnan(a) /\ ~isnan(b) /\ a.n * b.d < b.n * a.d
RLe(a, b) == ~isnan(a) /\ ~isnan(b) /\ a.n * b.d <= b.n * a.d
RGt(a, b) == RLt(b, a)
RGe(a, b) == RLe(b, a)

Zero == R(0)

\* Python int(): truncation toward zero.  int(nan) raises ValueError: the callers
\* test isnan and record the raise, the value 0 is then never used
PyInt(a) == IF isnan(a) THEN 0 ELSE IF a.n >= 0 THEN a.n \div a.d ELSE -((-a.n) \div a.d)

\* Python // on integers with a positive divisor
FloorDiv(a, b) == a \div b

RECURSIVE ISqrtIter(_, _, _)
ISqrtIter(k, lo, hi) ==
    IF lo >= hi THEN lo
    ELSE LET mid == (lo + hi + 1) \div 2
         IN  IF mid * mid <= k THEN ISqrtIter(k, mid, hi) ELSE ISqrtIter(k, lo, mid - 1)

\* largest s with s*s <= k
ISqrt(k) == ISqrtIter(k, 0, IF k < 46340 THEN k ELSE 46340)

\* the root of a, given the integer roots of its numerator and its denominator
SqrtOf(a, sn, sd) ==
    IF sn * sn = a.n /\ sd * sd = a.d THEN Norm(sn, sd)
    ELSE Norm(ISqrt(a.n * a.d), a.d)

\* np.sqrt: exact when the argument is the square of a rational; otherwise
\* the root rounded down to a multiple of 1/d (floats round, too)
Sqrt(a) ==
    IF isnan(a) \/ a.n < 0 THEN NaN
    ELSE SqrtOf(a, ISqrt(a.n), ISqrt(a.d))

Min(a, b) == IF a < b THEN a ELSE b
Max(a, b) == IF a > b THEN a ELSE b

\* ───────────────────────── static configuration ───────────────────────────

\* Python None for the string-valued fields (selected_joint, angle label, data handles)
None == "None"

\* 0-based indexing of a Python sequence
At(seq, i) == seq[i + 1]

MARKER_TO_ANGLE ==
    [m \in {"RAnkle", "LAnkle", "RKnee", "LKnee", "RHip", "LHip", "RShoulder", "LShoulder",
            "RElbow", "LElbow", "RWrist", "LWrist", "RBigToe", "RSmallToe", "RHeel",
            "LBigToe", "LSmallToe", "LHeel", "Hip", "Neck", "Head", "Nose"} |->
        CASE m = "RAnkle" -> "right ankle"       [] m = "LAnkle" -> "left ankle"
          [] m = "RKnee" -> "right knee"         [] m = "LKnee" -> "left knee"
          [] m = "RHip" -> "right hip"           [] m = "LHip" -> "left hip"
          [] m = "RShoulder" -> "right shoulder" [] m = "LShoulder" -> "left shoulder"
          [] m = "RElbow" -> "right elbow"       [] m = "LElbow" -> "left elbow"
          [] m = "RWrist" -> "right forearm"     [] m = "LWrist" -> "left forearm"
          [] m \in {"RBigToe", "RSmallToe", "RHeel"} -> "right foot"
          [] m \in {"LBigToe", "LSmallToe", "LHeel"} -> "left foot"
          [] m = "Hip" -> "pelvis"               [] m = "Neck" -> "trunk"
          [] m \in {"Head", "Nose"} -> "head"]

SKELETON_CONNECTIONS ==
    << <<"Nose", "Neck">>, <<"Neck", "Head">>,
       <<"Neck", "RShoulder">>, <<"RShoulder", "RElbow">>, <<"RElbow", "RWrist">>,
       <<"Neck", "LShoulder">>, <<"LShoulder", "LElbow">>, <<"LElbow", "LWrist">>,
       <<"Neck", "Hip">>,
       <<"Hip", "RHip">>, <<"RHip", "RKnee">>, <<"RKnee", "RAnkle">>,
       <<"RAnkle", "RHeel">>, <<"RAnkle", "RBigToe">>, <<"RAnkle", "RSmallToe">>,
       <<"Hip", "LHip">>, <<"LHip", "LKnee">>, <<"LKnee", "LAnkle">>,
       <<"LAnkle", "LHeel">>, <<"LAnkle", "LBigToe">>, <<"LAnkle", "LSmallToe">> >>

\* smooth(arr, win=11, poly=3)
win == 11

\* detection radius of the hit test, frame pixels (best_d = 50)
HitRadius == 50

\* shortest accepted calibration line, frame pixels (px_dist < 5)
MinCalLine == 5

\* longest trail, frames (trail_len = min(60, idx))
TrailWindow == 60

\* VideoLabel minimum size, used as the label size (setMinimumSize(750, 480))
LabelW == 750
LabelH == 480

\* ───────────────────────── the files on disk ───────────────────────────────
\* Three videos.  "a.mp4" has an analysis with gaps, "b.mp4" is shorter and its
\* angle file holds a single row, "bad.mp4" cannot be decoded.  A session works
\* in one folder; SwitchSpec further down opens a.mp4 and b.mp4 in one session.

Videos == {"a.mp4", "b.mp4", "bad.mp4"}

Folders == { {"a.mp4"}, {"b.mp4", "bad.mp4"} }

\* number of frames of a.mp4 and of b.mp4
FramesA == 3
FramesB == 2

\* cap.get(cv2.CAP_PROP_FRAME_COUNT): 0 when the file cannot be decoded
FrameCount(path) == CASE path = "a.mp4" -> FramesA [] path = "b.mp4" -> FramesB [] OTHER -> 0

\* cap.get(cv2.CAP_PROP_FPS): 0 when the file cannot be decoded
CapFps(path) == CASE path = "a.mp4" -> 30 [] path = "b.mp4" -> 25 [] OTHER -> 0

\* frame width and height
FrameShape(path) == <<480, 480>>

\* ret of cap.read()
ReadOk(path, idx) == idx >= 0 /\ idx < FrameCount(path)

\* os.path.exists(analysis)
HasAnalysis(path) == path \in {"a.mp4", "b.mp4"}

RSeq(s) == [i \in DOMAIN s |-> R(s[i])]

\* Sports2DLoader.load_trc of the video's trajectory file.  A marker that is lost
\* at a frame has both coordinates flagged there: in a.mp4 LElbow is lost at
\* frame 1 (the gap is filled with zeros), Neck is NaN at frame 0 and -1 at frame 2
Trc(key) ==
    IF key = "a.mp4" THEN
        [data_rate |-> 2,
         marker_list |-> <<"Hip", "RKnee", "LElbow", "Neck">>,
         time |-> <<R(0), Norm(1, 2), R(1)>>,
         markers |-> [m \in {"Hip", "RKnee", "LElbow", "Neck"} |->
            CASE m = "Hip"    -> [x |-> RSeq(<<100, 100, 100>>), y |-> RSeq(<<100, 100, 100>>)]
              [] m = "RKnee"  -> [x |-> RSeq(<<100, 110, 120>>), y |-> RSeq(<<200, 200, 200>>)]
              [] m = "LElbow" -> [x |-> RSeq(<<140, 0, 140>>),   y |-> RSeq(<<100, 0, 100>>)]
              [] m = "Neck"   -> [x |-> <<NaN, R(100), R(-1)>>,  y |-> <<NaN, R(50), R(-1)>>]]]
    ELSE
        [data_rate |-> 2,
         marker_list |-> <<"Hip", "RKnee">>,
         time |-> <<R(0), Norm(1, 2)>>,
         markers |-> [m \in {"Hip", "RKnee"} |->
            IF m = "Hip" THEN [x |-> RSeq(<<100, 100>>), y |-> RSeq(<<100, 100>>)]
                         ELSE [x |-> RSeq(<<100, 110>>), y |-> RSeq(<<200, 200>>)]]]

\* Sports2DLoader.load_mot of the video's angle file
Mot(key) ==
    IF key = "a.mp4" THEN
        [angle_list |-> <<"right knee", "pelvis">>,
         angles |-> [g \in {"right knee", "pelvis"} |->
            IF g = "right knee" THEN RSeq(<<10, 20, 40>>) ELSE RSeq(<<0, 0, 0>>)]]
    ELSE
        [angle_list |-> <<"pelvis">>,
         angles |-> [g \in {"pelvis"} |-> RSeq(<<10>>)]]

\* ───────────────────────── kinematics ───────────────────────────────────────

\* Python None for a float-valued field (px_per_unit)
NoneF == [n |-> 0, d |-> -1]

\* truth value of a float-or-None (if self.px_per_unit:)
Truthy(v) == v # NoneF /\ v.n # 0

\* a conversion that multiplies by the scale
ScaleValTimes(px_per_unit, px_val) ==
    IF Truthy(px_per_unit) THEN RMul(px_val, px_per_unit) ELSE px_val

\* _scale_val
ScaleVal(px_per_unit, px_val) ==
    IF Truthy(px_per_unit) THEN RDiv(px_val, px_per_unit) ELSE px_val

\* arr * s
ArrScale(arr, s) == [i \in DOMAIN arr |-> RMul(arr[i], s)]

\* a derivative that halves the one-sided differences at both ends
gradientHalvedEnds(f, dt) ==
    LET n == Len(f)
    IN  [i \in 1..n |->
            IF i = 1 THEN RDiv(RSub(f[2], f[1]), RMul(R(2), dt))
            ELSE IF i = n THEN RDiv(RSub(f[n], f[n - 1]), RMul(R(2), dt))
            ELSE RDiv(RSub(f[i + 1], f[i - 1]), RMul(R(2), dt))]

\* np.gradient(f, dt) of a series of at least two samples: centred differences
\* inside, one-sided differences at both ends
gradient(f, dt) ==
    LET n == Len(f)
    IN  [i \in 1..n |->
            IF i = 1 THEN RDiv(RSub(f[2], f[1]), dt)
            ELSE IF i = n THEN RDiv(RSub(f[n], f[n - 1]), dt)
            ELSE RDiv(RSub(f[i + 1], f[i - 1]), RMul(R(2), dt))]

\* np.gradient raises ValueError on fewer than edge_order + 1 = 2 samples
gradientRaises(f) == Len(f) < 2

\* least-squares cubic fit over 11 equally spaced samples: row j gives the fitted
\* value at sample j as a combination of the 11 samples, times SavgolDen
SavgolRows ==
    << <<678, 288, 48, -72, -102, -72, -12, 48, 78, 48, -72>>,
       <<288, 246, 192, 132, 72, 18, -24, -48, -48, -18, 48>>,
       <<48, 192, 246, 232, 172, 88, 2, -64, -88, -48, 78>>,
       <<-72, 132, 232, 251, 212, 138, 52, -23, -64, -48, 48>>,
       <<-102, 72, 172, 212, 206, 168, 112, 52, 2, -24, -12>>,
       <<-72, 18, 88, 138, 168, 178, 168, 138, 88, 18, -72>>,
       <<-12, -24, 2, 52, 112, 168, 206, 212, 172, 72, -102>>,
       <<48, -48, -64, -23, 52, 138, 212, 251, 232, 132, -72>>,
       <<78, -48, -88, -64, 2, 88, 172, 232, 246, 192, 48>>,
       <<48, -18, -48, -48, -24, 18, 72, 132, 192, 246, 288>>,
       <<-72, 48, 78, 48, -12, -72, -102, -72, 48, 288, 678>> >>

SavgolDen == 858

RECURSIVE Dot(_, _, _, _)
\* sum over k = 1..m of row[k] * arr[base + k]
Dot(row, arr, base, m) ==
    IF m = 0 THEN Zero
    ELSE RAdd(Dot(row, arr, base, m - 1), RMul(R(row[m]), arr[base + m]))

\* savgol_filter(arr, 11, 3), mode 'interp': the centre row inside, the fit of the
\* first or last window at the five samples of either end
savgol_filter(arr) ==
    LET n == Len(arr)
    IN  [i \in 1..n |->
            LET base == Max(0, Min(i - 6, n - win))
            IN  RDiv(Dot(SavgolRows[i - base], arr, base, win), R(SavgolDen))]

\* a smoothing that filters a series as long as the window
smoothFromWindow(arr) == IF Len(arr) >= win THEN savgol_filter(arr) ELSE arr

\* smooth(arr, win=11, poly=3)
smooth(arr) == IF Len(arr) > win THEN savgol_filter(arr) ELSE arr

\* np.sqrt(u**2 + v**2)
Magnitude(u, v) == [i \in DOMAIN u |-> Sqrt(RAdd(RMul(u[i], u[i]), RMul(v[i], v[i])))]

\* raw_angle[:n]
Prefix(arr, n) == [i \in 1..Min(n, Len(arr)) |-> arr[i]]

\* ── the cache: one entry per _cache_* attribute.  src names the run of
\* _compute_kinematics that assigned the attribute (its inputs), none is "is None"
CacheFields == {"time", "vx", "vy", "vtotal", "ax", "ay", "atotal",
                "angle", "ang_vel", "ang_acc", "angle_name"}

NoRun == [joint |-> None, trc |-> None, mot |-> None, px |-> NoneF]

Run(joint, trc, mot, px) == [joint |-> joint, trc |-> trc, mot |-> mot, px |-> px]

Put(run, v) == [src |-> run, none |-> FALSE, val |-> v]

Clear(run) == [src |-> run, none |-> TRUE, val |-> <<>>]

\* Sports2DApp.__init__: every _cache_* is None
EmptyCache == [f \in CacheFields |-> Clear(NoRun)]

\* MARKER_TO_ANGLE.get(joint)
AngleCol(joint) == IF joint \in DOMAIN MARKER_TO_ANGLE THEN MARKER_TO_ANGLE[joint] ELSE None

\* s of _compute_kinematics: 1 / px_per_unit when a calibration is in effect
KinScale(px_per_unit) == IF Truthy(px_per_unit) THEN RDiv(R(1), px_per_unit) ELSE R(1)

\* dt of _compute_kinematics
KinDt(trc_data) == RDiv(R(1), R(Trc(trc_data).data_rate))

\* the six series stored by _compute_kinematics: the smoothed velocities, the
\* smoothed accelerations and the smoothed magnitudes of the unsmoothed ones
LinearSeries(vx, vy, svx, svy, ax, ay) ==
    [vx |-> svx,
     vy |-> svy,
     vtotal |-> smooth(Magnitude(vx, vy)),
     ax |-> smooth(ax),
     ay |-> smooth(ay),
     atotal |-> smooth(Magnitude(ax, ay))]

\* ax, ay = np.gradient(self._cache_vx, dt), np.gradient(self._cache_vy, dt)
LinearOfSmoothed(vx, vy, svx, svy, dt) ==
    LinearSeries(vx, vy, svx, svy, gradient(svx, dt), gradient(svy, dt))

\* self._cache_vx, self._cache_vy = smooth(vx), smooth(vy)
LinearOfVelocity(vx, vy, dt) == LinearOfSmoothed(vx, vy, smooth(vx), smooth(vy), dt)

\* the linear part of _compute_kinematics for the series c of the selected marker,
\* the scale s and the sample interval dt
Linear(c, s, dt) ==
    LinearOfVelocity(gradient(ArrScale(c.x, s), dt), gradient(ArrScale(c.y, s), dt), dt)

\* the assignments of the six linear attributes
StoreLinear(cache, run, lin) ==
    [cache EXCEPT !.vx = Put(run, lin.vx),
                  !.vy = Put(run, lin.vy),
                  !.vtotal = Put(run, lin.vtotal),
                  !.ax = Put(run, lin.ax),
                  !.ay = Put(run, lin.ay),
                  !.atotal = Put(run, lin.atotal)]

\* self._cache_ang_vel = smooth(ang_vel), then ang_acc from it
StoreAngular(cache, run, ang_vel, dt) ==
    [cache EXCEPT !.ang_vel = Put(run, ang_vel),
                  !.ang_acc = Put(run, smooth(gradient(ang_vel, dt)))]

\* the angle branch once _cache_angle_name and _cache_angle are assigned:
\* np.gradient of the angle series either raises or gives the angular series
StoreAngle(cache, run, angle, dt) ==
    IF gradientRaises(angle)
    THEN [cache |-> cache, raised |-> TRUE]
    ELSE [cache |-> StoreAngular(cache, run, smooth(gradient(angle, dt)), dt),
          raised |-> FALSE]

\* self._cache_angle_name = angle_col and self._cache_angle = raw_angle[:n]
AngleBranch(cache, run, angle_col, angle, dt) ==
    StoreAngle([cache EXCEPT !.angle_name = Put(run, <<angle_col>>),
                             !.angle = Put(run, angle)],
               run, angle, dt)

\* raw_angle[:n] with n = min(len(t), len(raw_angle))
AngleSeries(t, raw_angle) == Prefix(raw_angle, Min(Len(t), Len(raw_angle)))

\* the part of _compute_kinematics after the linear attributes
AngleStage(cache, run, angle_col, dt) ==
    IF angle_col # None /\ run.mot # None /\ angle_col \in DOMAIN Mot(run.mot).angles
    THEN AngleBranch(cache, run, angle_col,
                     AngleSeries(Trc(run.trc).time, Mot(run.mot).angles[angle_col]), dt)
    ELSE [cache |-> [cache EXCEPT !.angle_name = Clear(run),
                                  !.angle = Clear(run),
                                  !.ang_vel = Clear(run),
                                  !.ang_acc = Clear(run)],
          raised |-> FALSE]

\* the part of _compute_kinematics after self._cache_time = t
LinearStage(cache, run, c, dt) ==
    IF gradientRaises(c.x) THEN [cache |-> cache, raised |-> TRUE]
    ELSE AngleStage(StoreLinear(cache, run, Linear(c, KinScale(run.px), dt)),
                    run, AngleCol(run.joint), dt)

\* _compute_kinematics for the inputs run, from self._cache_time = t on
TimeStage(cache, run) ==
    LinearStage([cache EXCEPT !.time = Put(run, Trc(run.trc).time)],
                run, Trc(run.trc).markers[run.joint], KinDt(run.trc))

\* _compute_kinematics.  The attributes are assigned one after the other; when
\* np.gradient raises, the assignments made before it stay and the rest of the
\* method is skipped.  The result is the cache after the call and whether the
\* call raised.
ComputeKinematics(cache, joint, trc_data, mot_data, px_per_unit) ==
    IF joint = None \/ trc_data = None THEN [cache |-> cache, raised |-> FALSE]
    ELSE TimeStage(cache, Run(joint, trc_data, mot_data, px_per_unit))

\* ───────────────────────── overlay geometry ─────────────────────────────────

\* the test the renderer and the hit test apply to a sample: x > 0 and not NaN
Shown(x) == RGt(x, Zero)

\* (int(x), int(y)) as handed to cv2
IntPt(x, y) == <<PyInt(x), PyInt(y)>>

\* int() of a NaN coordinate raises
PtRaises(x, y) == isnan(x) \/ isnan(y)

\* a trail that goes back to the first frame
TrailRangeWhole(idx) == 0..(idx - 1)

\* range(max(0, idx - trail_len), idx) with trail_len = min(60, idx)
TrailRange(idx) == { i \in 0..(idx - 1) : i >= Max(0, idx - Min(TrailWindow, idx)) }

\* int(255 * (i - (idx - trail_len)) / max(trail_len, 1)), then min(255, alpha)
TrailAlpha(i, idx) ==
    LET trail_len == Min(TrailWindow, idx)
    IN  Min(255, (255 * (i - (idx - trail_len))) \div Max(trail_len, 1))

\* the frames i whose segment (i, i+1) the absolute trail draws
AbsTrailFrames(c, idx) ==
    { i \in TrailRange(idx) :
        /\ i < Len(c.x) /\ i + 1 < Len(c.x)
        /\ Shown(At(c.x, i)) /\ Shown(At(c.x, i + 1)) }

AbsTrail(c, idx) ==
    { [i |-> i, j |-> i + 1,
       p1 |-> IntPt(At(c.x, i), At(c.y, i)),
       p2 |-> IntPt(At(c.x, i + 1), At(c.y, i + 1)),
       alpha |-> TrailAlpha(i, idx)] : i \in AbsTrailFrames(c, idx) }

AbsTrailRaises(c, idx) ==
    \E i \in AbsTrailFrames(c, idx) :
        PtRaises(At(c.x, i), At(c.y, i)) \/ PtRaises(At(c.x, i + 1), At(c.y, i + 1))

\* the frames i whose segment the reference-relative trail draws
RelTrailFrames(c, hip, idx) ==
    IF idx < Len(hip.x) /\ Shown(At(hip.x, idx))
    THEN { i \in TrailRange(idx) :
            /\ ~(i >= Len(c.x) \/ i + 1 >= Len(c.x) \/ i >= Len(hip.x))
            /\ Shown(At(hip.x, i)) }
    ELSE {}

\* the recentred end points (rx1, ry1), (rx2, ry2) of the segment of frame i
RelEnds(c, hip, idx, i) ==
    LET hip_x == At(hip.x, idx)
        hip_y == At(hip.y, idx)
        j     == Min(i + 1, Len(c.x) - 1)
        hx_j  == At(hip.x, Min(j, Len(hip.x) - 1))
        hy_j  == At(hip.y, Min(j, Len(hip.y) - 1))
    IN  [j   |-> j,
         rx1 |-> RAdd(RSub(At(c.x, i), At(hip.x, i)), hip_x),
         ry1 |-> RAdd(RSub(At(c.y, i), At(hip.y, i)), hip_y),
         rx2 |-> RAdd(RSub(At(c.x, j), hx_j), hip_x),
         ry2 |-> RAdd(RSub(At(c.y, j), hy_j), hip_y)]

\* the segment of frame i with the recentred end points e
RelSegment(i, e) ==
    [i |-> i, j |-> e.j, p1 |-> IntPt(e.rx1, e.ry1), p2 |-> IntPt(e.rx2, e.ry2)]

RelTrail(c, hip, idx) ==
    { RelSegment(i, RelEnds(c, hip, idx, i)) : i \in RelTrailFrames(c, hip, idx) }

\* int() of a recentred end point raises
RelEndsRaise(e) == PtRaises(e.rx1, e.ry1) \/ PtRaises(e.rx2, e.ry2)

RelTrailRaises(c, hip, idx) ==
    \E i \in RelTrailFrames(c, hip, idx) : RelEndsRaise(RelEnds(c, hip, idx, i))

\* the bones drawn at frame idx
BoneIdx(markers, idx) ==
    { k \in DOMAIN SKELETON_CONNECTIONS :
        LET a == SKELETON_CONNECTIONS[k][1]
            b == SKELETON_CONNECTIONS[k][2]
        IN  /\ a \in DOMAIN markers /\ b \in DOMAIN markers
            /\ idx < Len(markers[a].x) /\ idx < Len(markers[b].x)
            /\ Shown(At(markers[a].x, idx)) /\ Shown(At(markers[b].x, idx)) }

Bones(markers, idx) ==
    { LET a == SKELETON_CONNECTIONS[k][1]
          b == SKELETON_CONNECTIONS[k][2]
      IN  [a |-> a, b |-> b,
           p1 |-> IntPt(At(markers[a].x, idx), At(markers[a].y, idx)),
           p2 |-> IntPt(At(markers[b].x, idx), At(markers[b].y, idx))]
      : k \in BoneIdx(markers, idx) }

BonesRaise(markers, idx) ==
    \E k \in BoneIdx(markers, idx) :
        LET a == SKELETON_CONNECTIONS[k][1]
            b == SKELETON_CONNECTIONS[k][2]
        IN  \/ PtRaises(At(markers[a].x, idx), At(markers[a].y, idx))
            \/ PtRaises(At(markers[b].x, idx), At(markers[b].y, idx))

\* the markers whose dot is drawn at frame idx
DotNames(markers, idx) ==
    { name \in DOMAIN markers :
        idx < Len(markers[name].x) /\ Shown(At(markers[name].x, idx)) }

Dots(markers, selected_joint, idx) ==
    { [name |-> name,
       p |-> IntPt(At(markers[name].x, idx), At(markers[name].y, idx)),
       radius |-> IF name = selected_joint THEN 9 ELSE 4]
      : name \in DotNames(markers, idx) }

DotsRaise(markers, idx) ==
    \E name \in DotNames(markers, idx) :
        PtRaises(At(markers[name].x, idx), At(markers[name].y, idx))

\* the "<angle> deg" annotation next to the selected marker, <<>> when not drawn
AngleText(markers, selected_joint, cache, idx) ==
    IF /\ selected_joint \in DotNames(markers, idx)
       /\ ~cache.angle.none /\ idx < Len(cache.angle.val)
       /\ ~isnan(At(cache.angle.val, idx))
    THEN <<At(cache.angle.val, idx)>>
    ELSE <<>>

\* what a frame shows when no overlay has been drawn on it
NoOverlay ==
    [raised |-> FALSE, trail |-> {}, rel |-> {}, bones |-> {}, dots |-> {}, angle |-> <<>>]

\* _draw_overlays with the markers of the trajectory data at hand
DrawMarkers(markers, selected_joint, doAbs, doRel, cache, idx) ==
    [raised |-> \/ (doAbs /\ AbsTrailRaises(markers[selected_joint], idx))
                \/ (doRel /\ RelTrailRaises(markers[selected_joint], markers["Hip"], idx))
                \/ BonesRaise(markers, idx)
                \/ DotsRaise(markers, idx),
     trail  |-> IF doAbs THEN AbsTrail(markers[selected_joint], idx) ELSE {},
     rel    |-> IF doRel THEN RelTrail(markers[selected_joint], markers["Hip"], idx) ELSE {},
     bones  |-> Bones(markers, idx),
     dots   |-> Dots(markers, selected_joint, idx),
     angle  |-> AngleText(markers, selected_joint, cache, idx)]

\* if self.selected_joint and self.selected_joint in markers
Selected(markers, selected_joint) ==
    selected_joint # None /\ selected_joint \in DOMAIN markers

\* _draw_overlays: the primitives drawn on frame idx, or raised when int() of a
\* NaN coordinate stops the draw
DrawOverlays(trc_data, selected_joint, show_trajectory, show_relative_trajectory, cache, idx) ==
    IF trc_data = None THEN NoOverlay
    ELSE DrawMarkers(Trc(trc_data).markers, selected_joint,
                     Selected(Trc(trc_data).markers, selected_joint) /\ show_trajectory,
                     /\ Selected(Trc(trc_data).markers, selected_joint)
                     /\ show_relative_trajectory
                     /\ "Hip" \in DOMAIN Trc(trc_data).markers,
                     cache, idx)

\* ───────────────────────── hit test ──────────────────────────────────────────

\* np.hypot(mx - vx, my - vy) ** 2: distances are compared through their squares,
\* which orders them as the distances themselves
Hypot2(mx, my, vx, vy) ==
    RAdd(RMul(RSub(mx, vx), RSub(mx, vx)), RMul(RSub(my, vy), RSub(my, vy)))

RECURSIVE HitScan(_, _, _, _, _, _, _)
\* the loop of _on_video_click over markers.items(), from position k on, with the
\* best marker so far and the square of its distance
HitScan(trc, frame, vx, vy, k, best, best_d2) ==
    IF k > Len(trc.marker_list) THEN best
    ELSE LET name == trc.marker_list[k]
             c    == trc.markers[name]
         IN  IF frame < Len(c.x)
             THEN LET mx == At(c.x, frame)
                      my == At(c.y, frame)
                      d2 == Hypot2(mx, my, vx, vy)
                  IN  IF ~Shown(mx) THEN HitScan(trc, frame, vx, vy, k + 1, best, best_d2)
                      ELSE IF RLt(d2, best_d2)
                           THEN HitScan(trc, frame, vx, vy, k + 1, name, d2)
                           ELSE HitScan(trc, frame, vx, vy, k + 1, best, best_d2)
             ELSE HitScan(trc, frame, vx, vy, k + 1, best, best_d2)

\* a hit test that also takes a marker at exactly the detection radius
NearestMarkerInclusive(trc, frame, vx, vy) ==
    HitScan(trc, frame, vx, vy, 1, None, R(HitRadius * HitRadius + 1))

\* best of _on_video_click for a click at frame-pixel position (vx, vy)
NearestMarker(trc, frame, vx, vy) ==
    HitScan(trc, frame, vx, vy, 1, None, R(HitRadius * HitRadius))

\* ───────────────────────── the statistics panel ─────────────────────────────

\* the text of one value label: "—", "N/A", "nan", or numbers in units of 10^-digits
Dash == [kind |-> "dash", v |-> <<>>]
NA   == [kind |-> "N/A", v |-> <<>>]

Pow10(k) == IF k = 2 THEN 100 ELSE 10000

\* round(v * 10^k), ties to even
RoundScaled(a, k) ==
    LET m == Abs(a.n) * Pow10(k)
        q == m \div a.d
        r == m % a.d
        u == IF 2 * r > a.d \/ (2 * r = a.d /\ q % 2 = 1) THEN q + 1 ELSE q
    IN  IF a.n < 0 THEN -u ELSE u

\* f"{v:.kf}"
Fmt(a, k) == IF isnan(a) THEN [kind |-> "nan", v |-> <<>>]
             ELSE [kind |-> "num", v |-> <<RoundScaled(a, k)>>]

\* f"({sx:.4f}, {sy:.4f})"
FmtPos(sx, sy) ==
    IF isnan(sx) \/ isnan(sy) THEN [kind |-> "nan", v |-> <<>>]
    ELSE [kind |-> "pos", v |-> <<RoundScaled(sx, 4), RoundScaled(sy, 4)>>]

StatNames == {"pos", "lin_vel", "lin_acc", "angle", "ang_vel", "ang_acc"}

\* the value labels the session state keeps: those of the angle
TrackedStats == {"angle", "ang_vel", "ang_acc"}

\* _make_stat_row: every value label starts as "—"
InitStats == [w \in TrackedStats |-> Dash]

\* the text of a label fed from a cache attribute, or keep when the attribute is
\* None or too short
StatOf(field, idx, k, keep) ==
    IF ~field.none /\ idx < Len(field.val) THEN Fmt(At(field.val, idx), k) ELSE keep

\* the text _update_stats gives the value label w for a detected sample
StatText(w, stats, c, cache, px_per_unit, idx) ==
    CASE w = "pos"     -> FmtPos(ScaleVal(px_per_unit, At(c.x, idx)),
                                 ScaleVal(px_per_unit, At(c.y, idx)))
      [] w = "lin_vel" -> StatOf(cache.vtotal, idx, 4, stats[w])
      [] w = "lin_acc" -> StatOf(cache.atotal, idx, 4, stats[w])
      [] w = "angle"   -> StatOf(cache.angle, idx, 2, Dash)
      [] w = "ang_vel" -> StatOf(cache.ang_vel, idx, 2, Dash)
      [] w = "ang_acc" -> StatOf(cache.ang_acc, idx, 2, Dash)

\* _update_stats from if np.isnan(x) on, c the series of the selected marker; it
\* writes the labels that stats keeps
StatsOf(stats, c, cache, px_per_unit, idx) ==
    IF isnan(At(c.x, idx)) THEN [w \in DOMAIN stats |-> NA]
    ELSE [w \in DOMAIN stats |-> StatText(w, stats, c, cache, px_per_unit, idx)]

\* _update_stats
UpdateStats(stats, selected_joint, trc_data, cache, px_per_unit, idx) ==
    IF selected_joint = None \/ trc_data = None THEN stats
    ELSE IF selected_joint \notin DOMAIN Trc(trc_data).markers THEN stats
    ELSE IF idx >= Len(Trc(trc_data).markers[selected_joint].x) THEN stats
    ELSE StatsOf(stats, Trc(trc_data).markers[selected_joint], cache, px_per_unit, idx)

\* ───────────────────────── the session state ────────────────────────────────

VARIABLES
    app,        \* the Sports2DApp window: its attributes, see Init
    alive,      \* the process has not been aborted
    folder,     \* the videos in the folder the session works in
    lastEvent,  \* the last step, when it was one the properties speak of (history)
    call,       \* a function of the program called on its own: input and result
    analysis    \* the analysis runs: their worker threads and the signals in flight

vars == <<app, alive, folder, lastEvent, call, analysis>>

\* a QPoint that is None
NoPoint == <<>>

\* no function is called on its own during a session
NoCall == [fn |-> "none", input |-> <<>>, result |-> <<>>]

\* Sports2DApp.__init__: self._worker = None, no analysis has been started.
\* runs are the AnalysisWorker threads in the order they were started, queue the
\* signals they have emitted and the GUI thread has not handled yet, video_path
\* is self._analysis_video_path
NoAnalysis == [runs |-> <<>>, queue |-> <<>>, video_path |-> None]

\* bool(QPoint): a null point (0, 0) is false
PointTruthy(p) == p # NoPoint /\ p # <<0, 0>>

\* Sports2DApp.__init__ and _build_ui.  trc_data and mot_data name the video whose
\* parsed file the attribute holds (the parsed data never change), frame is the
\* pixmap on the video label: the frame index it shows, the overlay drawn on it,
\* and the trajectory data and the selection the overlay was drawn from.  raised is not an attribute: it tells
\* a caller that the handler at work has been stopped by an exception.
\* stats are the value labels of the statistics panel that show the angle.
\* Attributes that only feed the painting of texts and curves (_cal_end, cal_text,
\* the status line, the button captions, the other value labels, the plot
\* widgets) are left out.
InitApp ==
    [video_path |-> None,
     cap |-> FALSE,
     total_frames |-> 0,
     fps |-> 30,
     current_frame |-> 0,
     timer |-> FALSE,
     selected_joint |-> None,
     px_per_unit |-> NoneF,
     unit_name |-> "px",
     show_trajectory |-> FALSE,
     show_relative_trajectory |-> FALSE,
     trc_data |-> None,
     mot_data |-> None,
     cache |-> EmptyCache,
     scale_factor |-> R(1),
     offset_x |-> 0,
     offset_y |-> 0,
     slider |-> [max |-> 99, down |-> FALSE],
     video_label |-> [draw_mode |-> FALSE, cal_start |-> NoPoint, drawing |-> FALSE],
     frame |-> [idx |-> -1, trc |-> None, joint |-> None, overlay |-> NoOverlay],
     stats |-> InitStats,
     raised |-> FALSE]

Init ==
    /\ app = InitApp
    /\ alive = TRUE
    /\ folder \in Folders
    /\ lastEvent = "other"
    /\ call = NoCall
    /\ analysis = NoAnalysis

\* the state after a handler has returned st.  An exception that leaves a slot
\* either is printed and the event loop goes on, or aborts the process (PyQt5
\* from 5.5 on calls qFatal unless an excepthook is installed)
Commit(st, ev) ==
    /\ app' = [st EXCEPT !.raised = FALSE]
    /\ alive' \in (IF st.raised THEN {TRUE, FALSE} ELSE {TRUE})
    /\ folder' = folder
    /\ lastEvent' = ev
    /\ call' = call
    /\ analysis' = analysis

\* ───────────────────────── frame rendering ───────────────────────────────────

\* the letterbox transform _set_frame derives from the frame and the label size
Letterbox(w, h) ==
    LET lw == LabelW
        lh == LabelH
        wide == w * lh > lw * h                               \* ia > la
        sw == IF wide THEN lw ELSE (lh * w) \div h           \* int(lh * ia)
        sh == IF wide THEN (lw * h) \div w ELSE lh           \* int(lw / ia)
    IN  [scale_factor |-> Norm(sw, w),
         offset_x |-> FloorDiv(lw - sw, 2),
         offset_y |-> FloorDiv(lh - sh, 2)]

\* the end of _set_frame: the frame with the overlay ov goes on the label and
\* _update_stats(idx) fills the value labels
ShowFrame(st, idx, ov, lb) ==
    IF ov.raised THEN [st EXCEPT !.raised = TRUE]
    ELSE [st EXCEPT !.scale_factor = lb.scale_factor,
                    !.offset_x = lb.offset_x,
                    !.offset_y = lb.offset_y,
                    !.frame = [idx |-> idx, trc |-> st.trc_data,
                               joint |-> st.selected_joint, overlay |-> ov],
                    !.stats = UpdateStats(st.stats, st.selected_joint, st.trc_data,
                                          st.cache, st.px_per_unit, idx)]

\* _set_frame after self.current_frame = idx
ReadFrame(st, idx) ==
    IF ~ReadOk(st.video_path, idx) THEN st
    ELSE ShowFrame(st, idx,
                   DrawOverlays(st.trc_data, st.selected_joint, st.show_trajectory,
                                st.show_relative_trajectory, st.cache, idx),
                   Letterbox(FrameShape(st.video_path)[1], FrameShape(st.video_path)[2]))

\* _set_frame(idx)
SetFrame(st, idx) ==
    IF ~st.cap \/ idx < 0 \/ idx >= st.total_frames THEN st
    ELSE ReadFrame([st EXCEPT !.current_frame = idx], idx)

\* ───────────────────────── handlers ─────────────────────────────────────────

\* VideoLabel.clear_cal_line
ClearCalLine(lbl) == [lbl EXCEPT !.cal_start = NoPoint]

\* QSlider.setMaximum
SetMaximum(sl, max) == [sl EXCEPT !.max = max]

\* _load_video_from_path(path)
LoadVideoFromPath(st, path) ==
    SetFrame([st EXCEPT !.video_path = path,
                        !.cap = TRUE,
                        !.total_frames = FrameCount(path),
                        !.fps = IF CapFps(path) = 0 THEN 30 ELSE CapFps(path),
                        !.slider = SetMaximum(st.slider, FrameCount(path) - 1),
                        !.trc_data = IF HasAnalysis(path) THEN path ELSE None,
                        !.mot_data = IF HasAnalysis(path) THEN path ELSE None,
                        !.selected_joint = None,
                        !.video_label = ClearCalLine(st.video_label)],
             0)

\* display position to frame-pixel position: (p - offset) / scale_factor
ToFrameX(st, p) == RDiv(R(p[1] - st.offset_x), st.scale_factor)
ToFrameY(st, p) == RDiv(R(p[2] - st.offset_y), st.scale_factor)

\* _update_all_graphs (it only redraws the plots) and _set_frame(current_frame)
\* after _compute_kinematics has returned ck, or nothing when it has raised
AfterCompute(st, ck) ==
    IF ck.raised THEN [st EXCEPT !.cache = ck.cache, !.raised = TRUE]
    ELSE SetFrame([st EXCEPT !.cache = ck.cache], st.current_frame)

\* _compute_kinematics, _update_all_graphs and _set_frame(current_frame): the
\* tail shared by a selection and an accepted calibration
Recompute(st) ==
    AfterCompute(st, ComputeKinematics(st.cache, st.selected_joint, st.trc_data,
                                       st.mot_data, st.px_per_unit))

\* if best: of _on_video_click
SelectBest(st, best) ==
    IF best # None THEN Recompute([st EXCEPT !.selected_joint = best]) ELSE st

\* _on_video_click(pos)
OnVideoClick(st, pos) ==
    IF st.trc_data = None THEN st
    ELSE SelectBest(st, NearestMarker(Trc(st.trc_data), st.current_frame,
                                      ToFrameX(st, pos), ToFrameY(st, pos)))

\* px_dist of _on_calibration_line
PxDist(st, p1, p2) ==
    Sqrt(Hypot2(ToFrameX(st, p2), ToFrameY(st, p2), ToFrameX(st, p1), ToFrameY(st, p1)))

\* what lastEvent records of a calibration line p1-p2 answered by (val, ok):
\* rejected as too short, accepted, or cancelled in the dialog
CalOutcome(st, p1, p2, val, ok) ==
    IF RLt(PxDist(st, p1, p2), R(MinCalLine)) THEN "cal_reject"
    ELSE IF ok /\ RGt(val, Zero) THEN "cal_accept"
    ELSE "cal_cancel"

\* an accepted calibration that leaves the cache of the selected marker as it is
CalAcceptedNoRecompute(st) == st

\* if self.selected_joint: of _on_calibration_line
CalAccepted(st) == IF st.selected_joint # None THEN Recompute(st) ELSE st

\* an accepted line that sets the scale and leaves the unit name as it is
SetCalibrationKeepsUnit(st, px_dist, val) ==
    [st EXCEPT !.px_per_unit = RDiv(px_dist, val)]

\* self.px_per_unit = px_dist / val and self.unit_name = "m" of an accepted line
SetCalibration(st, px_dist, val) ==
    [st EXCEPT !.px_per_unit = RDiv(px_dist, val), !.unit_name = "m"]

\* a calibration that takes a line of any length
CalibrateWithAnyLength(st, px_dist, val, ok) ==
    IF ok /\ RGt(val, Zero) THEN CalAccepted(SetCalibration(st, px_dist, val))
    ELSE [st EXCEPT !.video_label = ClearCalLine(st.video_label)]

\* _on_calibration_line once px_dist is known, the input dialog answering (val, ok)
CalibrateWith(st, px_dist, val, ok) ==
    IF RLt(px_dist, R(MinCalLine)) THEN st
    ELSE IF ok /\ RGt(val, Zero) THEN CalAccepted(SetCalibration(st, px_dist, val))
    ELSE [st EXCEPT !.video_label = ClearCalLine(st.video_label)]

\* a calibration that takes the value of the dialog whether or not it was confirmed
OnCalibrationLineIgnoresOk(st, p1, p2, val, ok) ==
    CalibrateWith(st, PxDist(st, p1, p2), val, TRUE)

\* _on_calibration_line(p1, p2), the input dialog answering (val, ok)
OnCalibrationLine(st, p1, p2, val, ok) ==
    CalibrateWith(st, PxDist(st, p1, p2), val, ok)

\* _start_calibration
StartCalibration(st) ==
    IF ~st.cap THEN st
    ELSE [st EXCEPT !.timer = FALSE,
                    !.video_label = ClearCalLine([st.video_label EXCEPT !.draw_mode = TRUE])]

\* _toggle_trajectory
ToggleTrajectory(st) ==
    SetFrame([st EXCEPT !.show_trajectory = ~st.show_trajectory], st.current_frame)

\* _toggle_relative_trajectory
ToggleRelativeTrajectory(st) ==
    SetFrame([st EXCEPT !.show_relative_trajectory = ~st.show_relative_trajectory],
             st.current_frame)

\* _toggle_play
TogglePlay(st) ==
    IF st.timer THEN [st EXCEPT !.timer = FALSE]
    ELSE IF ~st.cap THEN st
    ELSE [st EXCEPT !.timer = TRUE]

\* the timer is stopped when st shows the last frame
StopAtEnd(st) ==
    IF st.current_frame >= st.total_frames - 1 THEN [st EXCEPT !.timer = FALSE] ELSE st

\* a tick that stops the timer as soon as it has shown the last frame
AdvanceFrameStopAtEnd(st) ==
    IF st.current_frame < st.total_frames - 1
    THEN StopAtEnd(SetFrame(st, st.current_frame + 1))
    ELSE [st EXCEPT !.timer = FALSE]

\* _advance_frame
AdvanceFrame(st) ==
    IF st.current_frame < st.total_frames - 1
    THEN SetFrame(st, st.current_frame + 1)
    ELSE [st EXCEPT !.timer = FALSE]

\* _seek(val)
Seek(st, val) == SetFrame(st, val)

\* a slider press that leaves the timer running
SliderPressedKeepsTimer(st) == st

\* the lambda connected to slider.sliderPressed
SliderPressedSlot(st) == [st EXCEPT !.timer = FALSE]

\* VideoLabel.mousePressEvent (left button)
MousePress(st, pos) ==
    IF st.video_label.draw_mode
    THEN [st EXCEPT !.video_label.cal_start = pos,
                    !.video_label.drawing = TRUE]
    ELSE OnVideoClick(st, pos)

\* self.draw_mode = False at the end of mouseReleaseEvent, skipped when the slot
\* of calibration_done has raised
ReleaseEnd(st) == IF st.raised THEN st ELSE [st EXCEPT !.video_label.draw_mode = FALSE]

\* VideoLabel.mouseReleaseEvent; calibration_done is delivered synchronously
MouseRelease(st, pos, val, ok) ==
    IF st.video_label.drawing
    THEN ReleaseEnd(IF PointTruthy(st.video_label.cal_start) /\ PointTruthy(pos)
                    THEN OnCalibrationLine([st EXCEPT !.video_label.drawing = FALSE],
                                           st.video_label.cal_start, pos, val, ok)
                    ELSE [st EXCEPT !.video_label.drawing = FALSE])
    ELSE st

\* ───────────────────────── events ───────────────────────────────────────────

\* positions of a click on the video label, display pixels.  With the 480 x 480
\* frame centred in the label a display point (x, y) is the frame point
\* (x - 135, y): (120, 100) at 20 px from both Hip and LElbow of frame 0,
\* (100, 150) at exactly 50 px from Hip and RKnee, (104, 196) next to RKnee,
\* (142, 100) next to LElbow where it is detected and 42 px from Hip, (100, 50)
\* on Neck where it is detected and at exactly 50 px from Hip
ClickPoints == { <<255, 100>>, <<235, 150>>, <<239, 196>>, <<277, 100>>, <<235, 50>> }

\* where a calibration line starts and where it ends, display pixels
CalStarts == { <<135, 0>> }
CalEnds   == { <<137, 0>>, <<185, 0>> }

\* the lengths typed into the calibration dialog (its minimum is 0.001)
DialogVals == { R(2) }

\* a mouse button held on the slider or on the video label keeps the mouse: no
\* other widget is clicked until it is released
MouseFree == ~app.slider.down /\ ~app.video_label.drawing

\* what lastEvent records of a click: whether it selected a marker
ClickEvent(st, pos) ==
    IF st.trc_data # None
       /\ NearestMarker(Trc(st.trc_data), st.current_frame, ToFrameX(st, pos), ToFrameY(st, pos)) # None
    THEN "select" ELSE "other"

\* _load_video: the file dialog returns path ("" when it is dismissed)
LoadVideo ==
    /\ alive /\ MouseFree
    /\ \E path \in folder \cup {""} :
        IF path # "" THEN Commit(LoadVideoFromPath(app, path), "load") ELSE Commit(app, "other")

\* a left click on the video label outside the calibration mode
VideoClickAt(pos) ==
    /\ alive /\ MouseFree /\ ~app.video_label.draw_mode
    /\ Commit(MousePress(app, pos), ClickEvent(app, pos))

VideoClick == \E pos \in ClickPoints : VideoClickAt(pos)

\* the Calibrate button
CalibrateButton ==
    /\ alive /\ MouseFree
    /\ Commit(StartCalibration(app), "other")

\* the mouse goes down on the video label in calibration mode
CalibrationPress ==
    /\ alive /\ MouseFree /\ app.video_label.draw_mode
    /\ \E pos \in CalStarts : Commit(MousePress(app, pos), "other")

\* the mouse is released: the line is handed to _on_calibration_line
CalibrationRelease ==
    /\ alive /\ app.video_label.drawing
    /\ \E pos \in CalEnds, val \in DialogVals, ok \in BOOLEAN :
        Commit(MouseRelease(app, pos, val, ok),
               IF PointTruthy(app.video_label.cal_start) /\ PointTruthy(pos)
               THEN CalOutcome(app, app.video_label.cal_start, pos, val, ok)
               ELSE "other")

\* the Show/Hide Trajectory button
TrajectoryButton ==
    /\ alive /\ MouseFree
    /\ Commit(ToggleTrajectory(app), "other")

\* the Show/Hide Relative Traj. button
RelativeTrajectoryButton ==
    /\ alive /\ MouseFree
    /\ Commit(ToggleRelativeTrajectory(app), "other")

\* the play button
PlayButton ==
    /\ alive /\ MouseFree
    /\ Commit(TogglePlay(app), "play_button")

\* timer.timeout
Tick ==
    /\ alive /\ app.timer
    /\ Commit(AdvanceFrame(app), "tick")

\* the mouse goes down on the slider handle: sliderPressed
SliderPressed ==
    /\ alive /\ MouseFree
    /\ Commit([SliderPressedSlot(app) EXCEPT !.slider.down = TRUE],
              IF app.timer THEN "press_playing" ELSE "other")

\* the held handle is dragged to val: sliderMoved(val).  lastEvent tells whether
\* the drag began while the video was playing
SliderMovedTo(val) ==
    /\ alive /\ app.slider.down
    /\ Commit(Seek(app, val),
              IF lastEvent \in {"press_playing", "seek_playing"} THEN "seek_playing" ELSE "other")

SliderMoved == \E val \in 0..app.slider.max : SliderMovedTo(val)

\* the handle is let go
SliderReleased ==
    /\ alive /\ app.slider.down
    /\ Commit([app EXCEPT !.slider.down = FALSE], "other")

Next ==
    \/ LoadVideo
    \/ VideoClick
    \/ CalibrateButton
    \/ CalibrationPress
    \/ CalibrationRelease
    \/ TrajectoryButton
    \/ RelativeTrajectoryButton
    \/ PlayButton
    \/ Tick
    \/ SliderPressed
    \/ SliderMoved
    \/ SliderReleased

Spec == Init /\ [][Next]_vars

\* ───────────────────────── functions called on their own ─────────────────────

\* the longest series with a step in it
MaxLen == 13

\* the series of an uncalibrated marker that moves along x = a + b * i at height
\* c and is displaced by h from sample k on (k counts from 0; h = 0: no step),
\* sampled r times a second
Track(in) ==
    [x |-> [i \in 1..in.n |-> R(in.a + in.b * (i - 1) + (IF i - 1 >= in.k THEN in.h ELSE 0))],
     y |-> [i \in 1..in.n |-> R(in.c)]]

\* straight tracks, the 100 frames at 30 Hz of a recording among them
LinearTracks ==
    { [n |-> n, a |-> 100, b |-> b, c |-> 200, h |-> 0, k |-> 0, r |-> r] :
        n \in {2, 3, 11, 12, 100}, b \in {0, 1, 2}, r \in {2, 30} }

\* tracks at rest that jump by 2 pixels at one sample
StepTracks ==
    UNION { { [n |-> n, a |-> 100, b |-> 0, c |-> 200, h |-> 2, k |-> k, r |-> 1] :
                k \in 1..(n - 1) } : n \in 10..MaxLen }

\* _compute_kinematics on a marker of its own: the linear part, no calibration
CallKinematics ==
    /\ call.fn = "none" /\ call.input \in LinearTracks \cup StepTracks
    /\ call' = [call EXCEPT !.fn = "kinematics",
                            !.result = Linear(Track(call.input), KinScale(NoneF),
                                              RDiv(R(1), R(call.input.r)))]
    /\ UNCHANGED <<app, alive, folder, lastEvent, analysis>>

\* smooth on the x series of a track
CallSmooth ==
    /\ call.fn = "none" /\ call.input \in LinearTracks \cup StepTracks
    /\ call' = [call EXCEPT !.fn = "smooth", !.result = smooth(Track(call.input).x)]
    /\ UNCHANGED <<app, alive, folder, lastEvent, analysis>>

\* reference lines drawn from the frame point (0, 0) (display (135, 0), see
\* ClickPoints) to the frame points (100, 0), (3, 4), (2, 0), (12, 5) and (10, 7),
\* and the answers of the length dialog
CalLines ==
    { [p1 |-> <<135, 0>>, p2 |-> p2, val |-> val, ok |-> ok] :
        p2 \in { <<235, 0>>, <<138, 4>>, <<137, 0>>, <<147, 5>>, <<145, 7>> },
        val \in { R(2), RDiv(R(1), R(2)), RDiv(R(1), R(1000)) },
        ok \in BOOLEAN }

\* the window showing frame 0 of a.mp4, not calibrated
CalView == LoadVideoFromPath(InitApp, "a.mp4")

\* _on_calibration_line on a window that has no calibration yet
CallCalibrate ==
    /\ call.fn = "none" /\ call.input \in CalLines
    /\ call' = [call EXCEPT !.fn = "calibrate",
                            !.result = OnCalibrationLine(CalView, call.input.p1, call.input.p2,
                                                         call.input.val, call.input.ok)]
    /\ UNCHANGED <<app, alive, folder, lastEvent, analysis>>

\* a selected marker and the frame shown: tracks of 3 and of 100 samples, one of
\* them not detected at its first three frames (x <= 0), at frames before, at and
\* past the 60 frames of the trail window and past the end of the series
TrailViews ==
    { [track |-> [n |-> n, a |-> a, b |-> 1, c |-> 200, h |-> 0, k |-> 0, r |-> 30],
       idx |-> idx] :
        n \in {3, 100}, a \in {100, -2},
        idx \in {0, 1, 2, 3, 59, 60, 61, 62, 98, 99, 100, 130} }

\* the absolute trail of _draw_overlays at a frame
CallTrail ==
    /\ call.fn = "none" /\ call.input \in TrailViews
    /\ call' = [call EXCEPT !.fn = "trail",
                            !.result = AbsTrail(Track(call.input.track), call.input.idx)]
    /\ UNCHANGED <<app, alive, folder, lastEvent, analysis>>

CallInit ==
    /\ app = InitApp
    /\ alive = TRUE
    /\ folder = {}
    /\ lastEvent = "other"
    /\ call \in { [fn |-> "none", input |-> in, result |-> <<>>] :
                    in \in LinearTracks \cup StepTracks \cup CalLines \cup TrailViews }
    /\ analysis = NoAnalysis

CallNext ==
    \/ CallKinematics
    \/ CallSmooth
    \/ CallCalibrate
    \/ CallTrail

CallSpec == CallInit /\ [][CallNext]_vars

\* ───────────────────────── the analysis worker ─────────────────────────────

\* how many analyses are started, and how many lines the tool prints at most
MaxRuns == 1
MaxLines == 2

\* the signals of AnalysisWorker: progress(str) and finished(bool, str); why
\* stands for the message
ProgressSig == [kind |-> "progress", success |-> FALSE, why |-> "line"]
FinishedSig(success, why) == [kind |-> "finished", success |-> success, why |-> why]

\* AnalysisWorker.__init__ and the ProgressDialog opened for it: pc is where run()
\* stands, nread the lines read from the tool, returncode process.returncode (-1
\* while there is none), sent the signals emitted so far, got those delivered,
\* log and status the text and the status label of the dialog
NewRun(path) ==
    [video_path |-> path, pc |-> "launch", nread |-> 0, returncode |-> -1,
     sent |-> <<>>, got |-> <<>>, log |-> 0, status |-> <<>>]

\* signal.emit(...) in the worker thread of run i: the connection is queued
Emit(an, i, sig) ==
    [an EXCEPT !.runs[i].sent = Append(@, sig),
               !.queue = Append(@, [run |-> i, sig |-> sig])]

\* _run_analysis(video_path, slowmo_factor)
RunAnalysis(an, path) ==
    [an EXCEPT !.runs = Append(@, NewRun(path)), !.video_path = path]

\* run() up to subprocess.Popen: the first progress line, then the process is
\* started, or the executable is not found, or Popen raises something else
Launch(an, i, outcome) ==
    IF outcome = "started"
    THEN [Emit(an, i, ProgressSig) EXCEPT !.runs[i].pc = "stream"]
    ELSE [Emit(Emit(an, i, ProgressSig), i, FinishedSig(FALSE, outcome))
             EXCEPT !.runs[i].pc = "done"]

\* one pass of for line in process.stdout: a line that is blank once stripped is
\* dropped
ReadLine(an, i, blank) ==
    [(IF blank THEN an ELSE Emit(an, i, ProgressSig)) EXCEPT !.runs[i].nread = @ + 1]

\* reading the output raises (the tool prints bytes that do not decode)
ReadRaises(an, i) ==
    [Emit(an, i, FinishedSig(FALSE, "error")) EXCEPT !.runs[i].pc = "done"]

\* a run that reports nothing when the tool fails
WaitSilentOnFailure(an, i, rc) ==
    IF rc = 0
    THEN [Emit(an, i, FinishedSig(TRUE, "completed"))
             EXCEPT !.runs[i].pc = "done", !.runs[i].returncode = rc]
    ELSE [an EXCEPT !.runs[i].pc = "done", !.runs[i].returncode = rc]

\* process.wait() and the result emitted from process.returncode
Wait(an, i, rc) ==
    [Emit(an, i, FinishedSig(rc = 0, IF rc = 0 THEN "completed" ELSE "exit_code"))
        EXCEPT !.runs[i].pc = "done", !.runs[i].returncode = rc]

\* the GUI thread takes the first queued signal: progress goes to append_log of
\* the dialog of its run; finished goes to _on_analysis_finished, which writes the
\* status of self._progress_dlg, the dialog opened last
Delivered(an) ==
    LET m == Head(an.queue)
        last == Len(an.runs)
    IN  IF m.sig.kind = "progress"
        THEN [an EXCEPT !.queue = Tail(@), !.runs[m.run].got = Append(@, m.sig),
                        !.runs[m.run].log = @ + 1]
        ELSE [an EXCEPT !.queue = Tail(@), !.runs[m.run].got = Append(@, m.sig),
                        !.runs[last].status = <<m.sig.success, m.sig.why>>]

\* _on_analysis_finished(success, message) on the window
OnAnalysisFinished(st, success, path) ==
    IF success THEN LoadVideoFromPath(st, path) ELSE st

\* the Analyze Video button and its dialog, accepted with a video of the folder,
\* while fewer than most analyses have been started.  The progress dialog is not
\* modal: the button can be pressed again while a run is under way
StartAnalysisUpTo(most) ==
    /\ alive /\ Len(analysis.runs) < most
    /\ \E path \in folder : analysis' = RunAnalysis(analysis, path)
    /\ UNCHANGED <<app, alive, folder, lastEvent, call>>

StartAnalysis == StartAnalysisUpTo(MaxRuns)

\* a second analysis may be started, before or after the first has finished
StartAnalysisTwice == StartAnalysisUpTo(2)

WorkerLaunch(i) ==
    /\ alive /\ analysis.runs[i].pc = "launch"
    /\ \E outcome \in {"started", "not_found", "error"} :
            analysis' = Launch(analysis, i, outcome)
    /\ UNCHANGED <<app, alive, folder, lastEvent, call>>

WorkerRead(i) ==
    /\ alive /\ analysis.runs[i].pc = "stream" /\ analysis.runs[i].nread < MaxLines
    /\ \/ \E blank \in BOOLEAN : analysis' = ReadLine(analysis, i, blank)
       \/ analysis' = ReadRaises(analysis, i)
    /\ UNCHANGED <<app, alive, folder, lastEvent, call>>

\* the tool closes its output and exits with code rc
WorkerWait(i) ==
    /\ alive /\ analysis.runs[i].pc = "stream"
    /\ \E rc \in {0, 1} : analysis' = Wait(analysis, i, rc)
    /\ UNCHANGED <<app, alive, folder, lastEvent, call>>

WorkerStep == \E i \in DOMAIN analysis.runs : WorkerLaunch(i) \/ WorkerRead(i) \/ WorkerWait(i)

\* the event loop of the GUI thread handles the next queued signal
DeliverSignal ==
    /\ alive /\ analysis.queue # <<>>
    /\ analysis' = Delivered(analysis)
    /\ LET m == Head(analysis.queue)
           st == IF m.sig.kind = "finished"
                 THEN OnAnalysisFinished(app, m.sig.success, analysis.video_path)
                 ELSE app
       IN  /\ app' = [st EXCEPT !.raised = FALSE]
           /\ alive' \in (IF st.raised THEN {TRUE, FALSE} ELSE {TRUE})
           /\ lastEvent' = IF m.sig.kind = "finished" /\ m.sig.success THEN "load" ELSE "other"
    /\ UNCHANGED <<folder, call>>

WorkerInit ==
    /\ app = InitApp
    /\ alive = TRUE
    /\ folder \in Folders
    /\ lastEvent = "other"
    /\ call = NoCall
    /\ analysis = NoAnalysis

WorkerNext ==
    \/ StartAnalysis
    \/ WorkerStep
    \/ DeliverSignal

WorkerSpec == WorkerInit /\ [][WorkerNext]_vars

\* the session of a user who starts up to two analyses
OverlapNext ==
    \/ StartAnalysisTwice
    \/ WorkerStep
    \/ DeliverSignal

OverlapSpec == WorkerInit /\ [][OverlapNext]_vars

\* ───────────────────────── properties ───────────────────────────────────────

\* a sample that stands for "marker not detected at frame k": x or y is <= 0 or NaN
Missing(c, k) == ~(RGt(At(c.x, k), Zero) /\ RGt(At(c.y, k), Zero))

\* the values a trajectory file uses to flag a lost marker
MissingCodes == {Zero, R(-1), NaN}

\* the series c with the sample of frame k replaced by the code m
WithSample(c, k, m) == [x |-> [c.x EXCEPT ![k + 1] = m], y |-> [c.y EXCEPT ![k + 1] = m]]

\* C1: right after a video has been loaded the calibration is reset: px_per_unit
\* is unset and the unit is "px"
C1_CalibrationResetOnLoad ==
    lastEvent = "load" => (app.px_per_unit = NoneF /\ app.unit_name = "px")

\* C2: right after a video has been loaded every field of the kinematics cache is
\* absent
C2_CacheDiscardedOnLoad ==
    lastEvent = "load" => \A f \in CacheFields : app.cache[f].none

\* C3: whenever the session can be observed, all fields of the kinematics cache
\* come from one and the same recomputation (none is left over from an earlier
\* one), also after a recomputation that an error stopped part-way
C3_CacheFromOneRun ==
    alive => \A f, g \in CacheFields : app.cache[f].src = app.cache[g].src

\* C4: the frame on display shows no dot and no bone of a marker whose sample at
\* that frame is missing, no trail segment one of whose end points is a missing
\* sample of the selected marker, and drawing the current frame does not raise
C4_MissingSampleNeverDrawn ==
    /\ (app.frame.idx >= 0 /\ app.frame.trc # None) =>
          LET m  == Trc(app.frame.trc).markers
              k  == app.frame.idx
              ov == app.frame.overlay
          IN  /\ \A d \in ov.dots : ~Missing(m[d.name], k)
              /\ \A b \in ov.bones : ~Missing(m[b.a], k) /\ ~Missing(m[b.b], k)
              /\ \A sg \in ov.trail :
                    ~Missing(m[app.frame.joint], sg.i) /\ ~Missing(m[app.frame.joint], sg.j)
              /\ \A sg \in ov.rel :
                    ~Missing(m[app.frame.joint], sg.i) /\ ~Missing(m[app.frame.joint], sg.j)
    /\ ~DrawOverlays(app.trc_data, app.selected_joint, app.show_trajectory,
                     app.show_relative_trajectory, app.cache, app.current_frame).raised

\* C5: the cached vx, vy, ax, ay do not depend on a missing sample of the selected
\* marker: replacing the sample by any other missing code gives the same four
\* series, so no missing sample is an input point of the differentiation
C5_MissingSampleNotDifferentiated ==
    (~app.cache.vx.none /\ \A f \in {"vy", "ax", "ay"} : app.cache[f].src = app.cache.vx.src) =>
        LET run == app.cache.vx.src
            c   == Trc(run.trc).markers[run.joint]
        IN  \A k \in 0..(Len(c.x) - 1) :
                Missing(c, k) =>
                    \A code \in MissingCodes :
                        LET lin == Linear(WithSample(c, k, code), KinScale(run.px), KinDt(run.trc))
                        IN  /\ lin.vx = app.cache.vx.val
                            /\ lin.vy = app.cache.vy.val
                            /\ lin.ax = app.cache.ax.val
                            /\ lin.ay = app.cache.ay.val

\* the square of the distance from the click to marker number k at the frame
ClickDist2(trc, frame, vx, vy, k) ==
    LET c == trc.markers[trc.marker_list[k]]
    IN  Hypot2(At(c.x, frame), At(c.y, frame), vx, vy)

\* the markers valid at the frame and strictly closer to the click than the radius
Candidates(trc, frame, vx, vy) ==
    { k \in DOMAIN trc.marker_list :
        LET c == trc.markers[trc.marker_list[k]]
        IN  /\ frame < Len(c.x)
            /\ ~Missing(c, frame)
            /\ RLt(ClickDist2(trc, frame, vx, vy, k), R(HitRadius * HitRadius)) }

\* the selection a click must leave: the candidate of minimum distance, the first
\* in scan order among equals, and the previous selection when there is none
Expected(st, pos) ==
    LET trc  == Trc(st.trc_data)
        vx   == ToFrameX(st, pos)
        vy   == ToFrameY(st, pos)
        cand == Candidates(trc, st.current_frame, vx, vy)
    IN  IF cand = {} THEN st.selected_joint
        ELSE trc.marker_list[
                CHOOSE k \in cand : \A j \in cand :
                    \/ RLt(ClickDist2(trc, st.current_frame, vx, vy, k),
                           ClickDist2(trc, st.current_frame, vx, vy, j))
                    \/ /\ ClickDist2(trc, st.current_frame, vx, vy, k)
                            = ClickDist2(trc, st.current_frame, vx, vy, j)
                       /\ k <= j]

C7_TickReachingLastFrameStops ==
    [][(lastEvent' = "tick" /\ app.total_frames > 1) =>
          /\ app.current_frame < app.total_frames - 1 => app'.current_frame = app.current_frame + 1
          /\ app'.current_frame = app'.total_frames - 1 => ~app'.timer]_vars

\* C7 amended: a tick before the last frame advances current_frame by one and
\* leaves the timer running, also when it reaches the last frame; a tick at the
\* last frame leaves current_frame as it is and stops the timer
C7_TickAdvancesThenNextTickStops ==
    [][lastEvent' = "tick" =>
          IF app.current_frame < app.total_frames - 1
          THEN app'.current_frame = app.current_frame + 1 /\ app'.timer
          ELSE app'.current_frame = app.current_frame /\ ~app'.timer]_vars

\* a tick has reached the last frame and the timer is still running
C7_Witness ==
    /\ lastEvent = "tick"
    /\ app.total_frames > 1
    /\ app.current_frame = app.total_frames - 1
    /\ app.timer

\* C8: a seek to a valid index sets current_frame to it; after a seek made while
\* playing the timer is stopped, a tick only comes from a running timer, and only
\* the play button starts the timer
C8_SeekSetsFrameAndStopsPlayback ==
    [][/\ \A val \in 0..(app.total_frames - 1) : SliderMovedTo(val) => app'.current_frame = val
       /\ lastEvent' = "seek_playing" => ~app'.timer
       /\ lastEvent' = "tick" => app.timer
       /\ (~app.timer /\ app'.timer) => lastEvent' = "play_button"]_vars

\* a seek begun while playing has moved the session to frame 2, the timer is off
C8_Witness ==
    /\ lastEvent = "seek_playing"
    /\ app.current_frame = 2 /\ app.frame.idx = 2
    /\ ~app.timer

\* C9: once a video has been loaded, 0 <= current_frame < total_frames
C9_FrameIndexInRange ==
    app.cap => (0 <= app.current_frame /\ app.current_frame < app.total_frames)

\* C10: the kinematics cache changes only in a click that selects a marker and in
\* an accepted calibration made with a marker selected; a tick, a seek, a trail
\* toggle, a click that selects nothing and a rejected or cancelled calibration
\* leave it as it is
C10_CacheChangesOnlyOnSelectionOrCalibration ==
    [][app'.cache # app.cache =>
          \/ lastEvent' = "select"
          \/ lastEvent' = "cal_accept" /\ app.selected_joint # None]_vars

\* a calibration has been cancelled with a marker selected and its cache filled
C10_Witness ==
    /\ lastEvent = "cal_cancel"
    /\ app.selected_joint # None
    /\ ~app.cache.vx.none

C12_ShortLineChangesNothing ==
    [][lastEvent' = "cal_reject" =>
          /\ app'.px_per_unit = app.px_per_unit
          /\ app'.unit_name = app.unit_name
          /\ app'.cache = app.cache]_vars

\* a line of 2 pixels has been rejected after a calibration had been accepted,
\* with a marker selected and its cache filled
C12_Witness ==
    /\ lastEvent = "cal_reject"
    /\ app.px_per_unit # NoneF
    /\ app.unit_name = "m"
    /\ app.selected_joint # None
    /\ ~app.cache.vx.none

\* C13: the speed and the acceleration magnitude of the cache are nowhere negative,
\* whatever the position series, series longer than the smoothing window included
C13_MagnitudesNonNegative ==
    call.fn = "kinematics" =>
        \A i \in 1..call.input.n :
            /\ RGe(call.result.vtotal[i], Zero)
            /\ RGe(call.result.atotal[i], Zero)

\* the marker has no angle in the loaded data: it has no entry in MARKER_TO_ANGLE,
\* or there is no angle file, or the file has no column of its angle
NoAngleFor(joint, mot_data) ==
    \/ AngleCol(joint) = None
    \/ mot_data = None
    \/ AngleCol(joint) \notin DOMAIN Mot(mot_data).angles

\* C14: right after a marker without angle data has been selected, the angle, its
\* two derivatives and the angle label of the cache are absent, and the three
\* angle value labels of the statistics panel show the placeholder
C14_NoAngleAfterSelection ==
    (lastEvent = "select" /\ NoAngleFor(app.selected_joint, app.mot_data)) =>
        /\ \A f \in {"angle", "ang_vel", "ang_acc", "angle_name"} : app.cache[f].none
        /\ \A w \in {"angle", "ang_vel", "ang_acc"} : app.stats[w] = Dash

\* the positions of the terminal results among the signals s
Terminal(s) == { k \in DOMAIN s : s[k].kind = "finished" }

\* the signals s begin the signals t
IsPrefix(s, t) == Len(s) <= Len(t) /\ \A k \in DOMAIN s : s[k] = t[k]

\* what run r has emitted is in order: progress lines, then at most one result
\* and nothing after it, the result there exactly when run() has ended
OneTerminalResult(r) ==
    /\ Cardinality(Terminal(r.sent)) <= 1
    /\ (r.pc = "done") = (Terminal(r.sent) # {})
    /\ Terminal(r.sent) \subseteq {Len(r.sent)}

\* the result of run r tells success exactly when the tool has exited with code 0
SuccessIsExitZero(r) ==
    \A k \in Terminal(r.sent) :
        /\ r.sent[k].success = (r.returncode = 0)
        /\ r.sent[k].why \in {"not_found", "error", "exit_code"} => ~r.sent[k].success

\* C15: every run of the analysis worker emits its progress lines and then, when
\* it ends, exactly one result: never none, never two, never a progress line after
\* it; the result is a success exactly when the exit code is 0, and a failure when
\* the executable is not found, the tool exits with another code or the launch
\* raises; the GUI thread is handed the signals in the order they were emitted
C15_OneTerminalResultPerRun ==
    \A i \in DOMAIN analysis.runs :
        /\ OneTerminalResult(analysis.runs[i])
        /\ SuccessIsExitZero(analysis.runs[i])
        /\ IsPrefix(analysis.runs[i].got, analysis.runs[i].sent)

\* a run has ended after the tool printed two lines and exited with a code other
\* than 0, and its failure has been delivered after its three progress lines
C15_Witness ==
    \E i \in DOMAIN analysis.runs :
        /\ analysis.runs[i].pc = "done"
        /\ analysis.runs[i].returncode = 1
        /\ analysis.runs[i].log = 3
        /\ analysis.runs[i].got = analysis.runs[i].sent
        /\ analysis.runs[i].status = <<FALSE, "exit_code">>

\* the reference marker is detected at frame idx and at every frame of the trail
\* window before it, always at the position it has at idx
HipAtRest(markers, idx) ==
    /\ "Hip" \in DOMAIN markers
    /\ idx < Len(markers["Hip"].x)
    /\ Shown(At(markers["Hip"].x, idx)) /\ Shown(At(markers["Hip"].y, idx))
    /\ \A i \in TrailRange(idx) :
        /\ At(markers["Hip"].x, i) = At(markers["Hip"].x, idx)
        /\ At(markers["Hip"].y, i) = At(markers["Hip"].y, idx)

\* the end points of the segments of a trail
Ends(trail) == { <<s.p1, s.p2>> : s \in trail }

\* what _draw_overlays draws at the current frame with both trails switched on
BothTrails ==
    DrawOverlays(app.trc_data, app.selected_joint, TRUE, TRUE, app.cache, app.current_frame)

\* C16: with a marker selected and the reference marker Hip at rest over the trail
\* window, the reference-relative trail and the absolute trail of the current
\* frame are drawn, and with the same set of segments
C16_RelativeTrailIsAbsoluteTrail ==
    (/\ app.trc_data # None
     /\ app.selected_joint # None
     /\ HipAtRest(Trc(app.trc_data).markers, app.current_frame)) =>
        /\ ~BothTrails.raised
        /\ Ends(BothTrails.rel) = Ends(BothTrails.trail)

\* the length in frame pixels of the reference line of a call
LineLength(in) == PxDist(CalView, in.p1, in.p2)

\* the line of a call has been accepted: 5 pixels or more, a positive length
\* confirmed in the dialog
LineAccepted(in) == RGe(LineLength(in), R(MinCalLine)) /\ in.ok /\ RGt(in.val, Zero)

\* C17: an accepted reference line gives px_per_unit = pixel length / real length,
\* and _scale_val with that scale turns the pixel length back into the real
\* length; the line (0,0)-(100,0) of real length 2 gives 50 pixels per unit and
\* turns 100 pixels into 2; without a calibration _scale_val returns its argument
C17_CalibrationRoundTrip ==
    call.fn = "calibrate" =>
        /\ LineAccepted(call.input) =>
            /\ call.result.px_per_unit = RDiv(LineLength(call.input), call.input.val)
            /\ ScaleVal(call.result.px_per_unit, LineLength(call.input)) = call.input.val
        /\ (LineAccepted(call.input) /\ call.input.p2 = <<235, 0>> /\ call.input.val = R(2)) =>
            /\ call.result.px_per_unit = R(50)
            /\ ScaleVal(call.result.px_per_unit, R(100)) = R(2)
        /\ ScaleVal(CalView.px_per_unit, LineLength(call.input)) = LineLength(call.input)
        /\ ~LineAccepted(call.input) =>
            ScaleVal(call.result.px_per_unit, LineLength(call.input)) = LineLength(call.input)

\* the line (0,0)-(100,0) has been accepted with the real length 2
C17_Witness ==
    /\ call.fn = "calibrate"
    /\ call.input.p2 = <<235, 0>> /\ call.input.val = R(2) /\ call.input.ok
    /\ call.result.px_per_unit = R(50)
    /\ call.result.unit_name = "m"

\* C18: for an uncalibrated marker that moves along x = a + b * i at constant y,
\* sampled r times a second, the cache holds vx = b * r, vy = 0, ax = 0 and ay = 0
\* at every frame, the first and the last included, whether or not the series is
\* long enough to be smoothed
C18_LinearTrackDerivatives ==
    (call.fn = "kinematics" /\ call.input.h = 0) =>
        \A i \in 1..call.input.n :
            /\ call.result.vx[i] = R(call.input.b * call.input.r)
            /\ call.result.vy[i] = Zero
            /\ call.result.ax[i] = Zero
            /\ call.result.ay[i] = Zero

\* the 100 frames at 30 Hz of x = 100 + i, y = 200 have been differentiated: the
\* velocity is 30 at the first and at the last frame
C18_Witness ==
    /\ call.fn = "kinematics"
    /\ call.input = [n |-> 100, a |-> 100, b |-> 1, c |-> 200, h |-> 0, k |-> 0, r |-> 30]
    /\ call.result.vx[1] = R(30)
    /\ call.result.vx[100] = R(30)
    /\ call.result.ax[100] = Zero

\* C20: smooth returns a series of at most 11 samples unchanged and hands a longer
\* one to the filter
C20_SmoothIdentityOnShortSeries ==
    call.fn = "smooth" =>
        /\ call.input.n <= win => call.result = Track(call.input).x
        /\ call.input.n > win => call.result = savgol_filter(Track(call.input).x)

\* smooth has returned unchanged a series of exactly 11 samples with a jump in it,
\* which the filter would alter
C20_Witness ==
    /\ call.fn = "smooth"
    /\ call.input.n = win
    /\ call.input.h # 0
    /\ call.result = Track(call.input).x
    /\ savgol_filter(Track(call.input).x) # Track(call.input).x

\* C19: in every state the window is either uncalibrated, px_per_unit unset and
\* the unit "px", or calibrated, px_per_unit a positive number and the unit "m"
C19_CalibrationInvariant ==
    \/ app.px_per_unit = NoneF /\ app.unit_name = "px"
    \/ /\ app.px_per_unit # NoneF
       /\ ~isnan(app.px_per_unit)
       /\ RGt(app.px_per_unit, Zero)
       /\ app.unit_name = "m"

\* a calibration dialog has been cancelled in a window calibrated before
C19_Witness ==
    /\ lastEvent = "cal_cancel"
    /\ app.px_per_unit # NoneF
    /\ RGt(app.px_per_unit, Zero)
    /\ app.unit_name = "m"

\* C21: the absolute trail at frame idx is made of segments (i, i + 1) with
\* max(0, idx - 60) <= i < idx only: at most 60 of them, none before frame 0, past
\* frame idx or past the last sample, and their colour intensity does not
\* decrease with i, so that the oldest segment has the least
C21_AbsoluteTrailWindow ==
    call.fn = "trail" =>
        /\ \A s \in call.result :
            /\ s.j = s.i + 1
            /\ Max(0, call.input.idx - 60) <= s.i /\ s.i < call.input.idx
            /\ s.i >= 0 /\ s.j <= call.input.idx /\ s.j <= call.input.track.n - 1
            /\ s.alpha >= 0 /\ s.alpha <= 255
        /\ Cardinality(call.result) <= 60
        /\ \A s, t \in call.result : s.i <= t.i => s.alpha <= t.alpha

\* the trail of frame 99 of a marker detected throughout its 100 frames: the 60
\* segments from frame 39 on, the oldest the darkest
C21_Witness ==
    /\ call.fn = "trail"
    /\ call.input.idx = 99 /\ call.input.track.n = 100 /\ call.input.track.a = 100
    /\ Cardinality(call.result) = 60
    /\ \E s \in call.result : s.i = 39 /\ s.alpha = 0
    /\ \E s \in call.result : s.i = 98 /\ s.alpha > 0
    /\ \A s \in call.result : s.i >= 39

\* the GUI thread is about to handle the successful result of a run
SuccessAtHead ==
    /\ analysis.queue # <<>>
    /\ Head(analysis.queue).sig.kind = "finished"
    /\ Head(analysis.queue).sig.success

\* C22: the step that handles the successful result of a run loads the video that
\* this run has analysed, also when another analysis, of another video, was
\* started before the run finished
C22_AutoLoadsVideoOfTheRun ==
    [][(SuccessAtHead /\ analysis'.queue = Tail(analysis.queue)) =>
          app'.video_path = analysis.runs[Head(analysis.queue).run].video_path]_vars


\* the run of _compute_kinematics that the state st calls for
CurrentRun(st) == Run(st.selected_joint, st.trc_data, st.mot_data, st.px_per_unit)

\* a session that opens videos of two analyses, a.mp4 and b.mp4, and loads,
\* clicks, calibrates, plays and seeks
SwitchInit ==
    /\ app = InitApp
    /\ alive = TRUE
    /\ folder = {"a.mp4", "b.mp4"}
    /\ lastEvent = "other"
    /\ call = NoCall
    /\ analysis = NoAnalysis

SwitchNext ==
    \/ LoadVideo
    \/ VideoClick
    \/ CalibrateButton
    \/ CalibrationPress
    \/ CalibrationRelease
    \/ PlayButton
    \/ Tick
    \/ SliderPressed
    \/ SliderMoved
    \/ SliderReleased

SwitchSpec == SwitchInit /\ [][SwitchNext]_vars

\* C23: whenever the session can be observed with a marker selected, the marker
\* is one of the loaded trajectory data and every series the cache holds was
\* computed from that marker's series of the loaded data with the px_per_unit in
\* effect
C23_CacheCoherence ==
    (alive /\ app.selected_joint # None) =>
        /\ app.trc_data # None
        /\ app.selected_joint \in DOMAIN Trc(app.trc_data).markers
        /\ \A f \in CacheFields :
              ~app.cache[f].none => app.cache[f].src = CurrentRun(app)

====
